---- MODULE Spec2Model ----
(***************************************************************************)
(* Sliding-tile puzzle solver (src/src/main.rs): the Puzzle value type,    *)
(* its cost heuristic and fingerprint, the scrambling random walk and the  *)
(* best-first search of solve with its visited table, frontier and trace.  *)
(***************************************************************************)
EXTENDS Integers, Sequences, FiniteSets, TLC

VARIABLES
    pc,        \* position in solve / in the board harness
    p1,        \* solve: the root Puzzle (new, then scrambled)
    amount,    \* scramble: the `amount` argument
    moves,     \* scramble: successful moves so far
    previous,  \* scramble: Option<Direction> of the last successful move
    visited,   \* solve: HashMap<u64, SolutionLink>
    states,    \* solve: BinaryHeap<Puzzle>, as the sequence of its elements
    p,         \* solve: the popped Puzzle being expanded
    from,      \* solve: fingerprint of the popped Puzzle
    next,      \* solve: depth of the popped Puzzle + 1
    di,        \* solve: index into ALL_DIRS of the next probe
    out,       \* solve: the lines written so far, one record per line
    result,    \* solve: None, or Some of the returned bool
    path,      \* solve: the Vec returned by collect
    pops,      \* number of pops so far (bounds the run)
    hist,      \* board harness: the last slide calls made on p1
    q,         \* board harness: a second Puzzle
    nops       \* board harness: slides made so far (bounds the run)

vars == <<pc, p1, amount, moves, previous, visited, states, p, from, next,
          di, out, result, path, pops, hist, q, nops>>

searchVars == <<visited, states, p, from, next, di, out, result, path, pops>>
scrambleVars == <<amount, moves, previous>>
harnessVars == <<hist, q, nops>>

----------------------------------------------------------------------------
(* Bounds of the model *)

\* the largest `scramble` argument of solve (a u8 in the program)
MaxScramble == 6
\* the pops after which a search is cut off. A search from the solved root
\* goes through the whole state space (181440 pops for SIZE = 3); searches
\* from the other roots of up to MaxScramble + 1 moves end within 98 pops
MaxPops == 120
\* the slides made on the Puzzle of the board harness
MaxOps == 6
\* the slides made on the two Puzzles of the pair harness, in all
MaxPairOps == 6

----------------------------------------------------------------------------
(* Option, Tile, Direction *)

None == <<>>
Some(x) == <<x>>

Empty == [tag |-> "Empty"]
Number(n) == [tag |-> "Number", n |-> n]

\* a variant of ALL_DIRS that lacks Down
ALL_DIRS_no_down == <<"Left", "Right", "Up">>

ALL_DIRS == <<"Left", "Right", "Up", "Down">>

Direction == {"Up", "Down", "Left", "Right"}

\* a variant of invert that sends Left to itself
invert_left_left(d) ==
    CASE d = "Left" -> "Left"
      [] d = "Right" -> "Left"
      [] d = "Up" -> "Down"
      [] d = "Down" -> "Up"

\* a variant of invert whose Down arm answers Down
invert_down_down(d) ==
    CASE d = "Down" -> "Down"
      [] d = "Left" -> "Right"
      [] d = "Right" -> "Left"
      [] d = "Up" -> "Down"

invert(d) ==
    CASE d = "Down" -> "Up"
      [] d = "Left" -> "Right"
      [] d = "Right" -> "Left"
      [] d = "Up" -> "Down"

SIZE == 3
LIMIT == SIZE - 1
MAX == SIZE * SIZE

\* a variant of solved_pos that does not subtract one
solved_pos_no_minus(n) == <<n \div SIZE, n % SIZE>>

solved_pos(n) == << (n - 1) \div SIZE, (n - 1) % SIZE >>

abs_diff(a, b) == IF a >= b THEN a - b ELSE b - a

----------------------------------------------------------------------------
(* u64 values, as four 16-bit limbs, most significant first *)

Limb == 65536

U64Zero == <<0, 0, 0, 0>>

\* u64 multiplication by 16, wrapping at 2^64
U64Mul16(u) ==
    [i \in 1..4 |->
        ((u[i] * 16) % Limb) + (IF i < 4 THEN (u[i + 1] * 16) \div Limb ELSE 0)]

\* u64 addition of a u8, wrapping at 2^64
U64AddU8(u, v) ==
    LET s4 == u[4] + v
        s3 == u[3] + (s4 \div Limb)
        s2 == u[2] + (s3 \div Limb)
        s1 == u[1] + (s2 \div Limb)
    IN  <<s1 % Limb, s2 % Limb, s3 % Limb, s4 % Limb>>

NatCmp(a, b) == IF a < b THEN "Less" ELSE IF a > b THEN "Greater" ELSE "Equal"

U64Cmp(a, b) ==
    IF a[1] # b[1] THEN NatCmp(a[1], b[1])
    ELSE IF a[2] # b[2] THEN NatCmp(a[2], b[2])
    ELSE IF a[3] # b[3] THEN NatCmp(a[3], b[3])
    ELSE NatCmp(a[4], b[4])

----------------------------------------------------------------------------
(* Puzzle *)

new ==
    [grid |-> [row \in 0..LIMIT |-> [col \in 0..LIMIT |->
                  IF row = LIMIT /\ col = LIMIT THEN Empty
                  ELSE Number(row * SIZE + col + 1)]],
     empty_pos |-> <<LIMIT, LIMIT>>,
     cost |-> 0]

TileVal(t) == IF t.tag = "Number" THEN t.n ELSE 0

U64 == [1..4 -> 0..(Limb - 1)]

\* a variant of uniq whose inner loop stops one col short (0..LIMIT)
uniq_short(self) ==
    LET loop[k \in 0..MAX, res \in U64] ==
            IF k = MAX THEN res
            ELSE loop[k + 1,
                      IF k % SIZE = LIMIT THEN res
                      ELSE U64AddU8(U64Mul16(res),
                                    TileVal(self.grid[k \div SIZE][k % SIZE]))]
    IN  loop[0, U64Zero]

\* the two nested loops, cell k being (k / SIZE, k % SIZE), res the
\* accumulator
uniq(self) ==
    LET loop[k \in 0..MAX, res \in U64] ==
            IF k = MAX THEN res
            ELSE loop[k + 1,
                      U64AddU8(U64Mul16(res),
                               TileVal(self.grid[k \div SIZE][k % SIZE]))]
    IN  loop[0, U64Zero]

is_solved(self) == self.cost = 0

\* a variant of TileGoal that sends the blank to the top-left cell
TileGoal_empty_origin(t) ==
    IF t.tag = "Number" THEN solved_pos(t.n) ELSE <<0, 0>>

TileGoal(t) == IF t.tag = "Number" THEN solved_pos(t.n) ELSE <<LIMIT, LIMIT>>

\* a variant of CostFrom that adds the row distances only
RECURSIVE CostFrom_rows_only(_, _, _)
CostFrom_rows_only(grid, k, cost) ==
    IF k = MAX THEN cost
    ELSE LET row == k \div SIZE
             col == k % SIZE
             g == TileGoal(grid[row][col])
         IN  CostFrom_rows_only(grid, k + 1, cost + abs_diff(row, g[1]))

RECURSIVE CostFrom(_, _, _)
CostFrom(grid, k, cost) ==
    IF k = MAX THEN cost
    ELSE LET row == k \div SIZE
             col == k % SIZE
             g == TileGoal(grid[row][col])
         IN  CostFrom(grid, k + 1,
                      cost + abs_diff(row, g[1]) + abs_diff(g[2], col))

compute_cost(self) == CostFrom(self.grid, 0, 0)

SetCell(grid, pt, t) == [grid EXCEPT ![pt[1]][pt[2]] = t]

\* a variant of swap that loses the second store
swap_lost_tmp(self, pt_a, pt_b) ==
    LET g1 == SetCell(self.grid, pt_a, self.grid[pt_b[1]][pt_b[2]])
        s == [self EXCEPT !.grid = g1]
    IN  [s EXCEPT !.cost = compute_cost(s)]

\* a variant of swap that leaves the cached cost as it was
swap_stale_cost(self, pt_a, pt_b) ==
    LET tmp == self.grid[pt_a[1]][pt_a[2]]
        g1 == SetCell(self.grid, pt_a, self.grid[pt_b[1]][pt_b[2]])
        g2 == SetCell(g1, pt_b, tmp)
    IN  [self EXCEPT !.grid = g2]

swap(self, pt_a, pt_b) ==
    LET tmp == self.grid[pt_a[1]][pt_a[2]]
        g1 == SetCell(self.grid, pt_a, self.grid[pt_b[1]][pt_b[2]])
        g2 == SetCell(g1, pt_b, tmp)
        s == [self EXCEPT !.grid = g2]
    IN  [s EXCEPT !.cost = compute_cost(s)]

\* a variant of swap_with_empty that does not move empty_pos
swap_with_empty_stale_pos(self, pt) == swap(self, pt, self.empty_pos)

\* the Puzzle after the call; the call always returns true
swap_with_empty(self, pt) ==
    [swap(self, pt, self.empty_pos) EXCEPT !.empty_pos = pt]

\* a variant of slide whose Down arm tests against LIMIT instead of SIZE
slide_down_limit(self, direction) ==
    LET r == self.empty_pos[1]
        c == self.empty_pos[2]
        legal == CASE direction = "Up" -> r > 0
                   [] direction = "Down" -> r + 1 < LIMIT
                   [] direction = "Left" -> c > 0
                   [] direction = "Right" -> c + 1 < SIZE
        pt == CASE direction = "Up" -> <<r - 1, c>>
                [] direction = "Down" -> <<r + 1, c>>
                [] direction = "Left" -> <<r, c - 1>>
                [] direction = "Right" -> <<r, c + 1>>
    IN  IF legal THEN [ret |-> TRUE, self |-> swap_with_empty(self, pt)]
        ELSE [ret |-> FALSE, self |-> self]

\* [ret |-> the returned bool, self |-> the Puzzle after the call]
slide(self, direction) ==
    LET r == self.empty_pos[1]
        c == self.empty_pos[2]
        legal == CASE direction = "Up" -> r > 0
                   [] direction = "Down" -> r + 1 < SIZE
                   [] direction = "Left" -> c > 0
                   [] direction = "Right" -> c + 1 < SIZE
        pt == CASE direction = "Up" -> <<r - 1, c>>
                [] direction = "Down" -> <<r + 1, c>>
                [] direction = "Left" -> <<r, c - 1>>
                [] direction = "Right" -> <<r, c + 1>>
    IN  IF legal THEN [ret |-> TRUE, self |-> swap_with_empty(self, pt)]
        ELSE [ret |-> FALSE, self |-> self]

\* Display: one "{..|..|..}" group per col, the rows of that col inside
TileText(t) == IF t.tag = "Number" THEN ToString(t.n) ELSE ""

RECURSIVE FmtFrom(_, _, _)
FmtFrom(grid, k, f) ==
    IF k = MAX THEN f
    ELSE LET col == k \div SIZE
             row == k % SIZE
         IN  FmtFrom(grid, k + 1,
                     f \o (IF row = 0 /\ col > 0 THEN "|" ELSE "")
                       \o (IF row = 0 THEN "{" ELSE "")
                       \o (IF row > 0 THEN "|" ELSE "")
                       \o TileText(grid[row][col])
                       \o (IF row = LIMIT THEN "}" ELSE ""))

fmt(self) == FmtFrom(self.grid, 0, "")

\* a variant of cmp that does not invert the cost ordering
cmp_cost_not_inverted(self, other) ==
    LET c == NatCmp(self.cost, other.cost)
    IN  IF c # "Equal" THEN c ELSE U64Cmp(uniq(self), uniq(other))

\* a variant of cmp that inverts the fingerprint ordering as well
cmp_uniq_inverted(self, other) ==
    LET c == NatCmp(other.cost, self.cost)
    IN  IF c # "Equal" THEN c ELSE U64Cmp(uniq(other), uniq(self))

\* Ord for Puzzle: cost inverted, then the fingerprints
cmp(self, other) ==
    LET c == NatCmp(other.cost, self.cost)
    IN  IF c # "Equal" THEN c ELSE U64Cmp(uniq(self), uniq(other))

----------------------------------------------------------------------------
(* SolutionLink, collect, BinaryHeap *)

SolutionLink(depth, step) == [depth |-> depth, step |-> step]

Insert(map, k, v) == (k :> v) @@ map

\* the loop of collect from the key nxt with the path acc. fuel: links the
\* chain may still follow; a chain longer than the table has a cycle, on
\* which the loop never ends
CollectFrom(map, start, fuel0) ==
    LET loop[nxt \in U64, acc \in Seq(U64 \X Direction), fuel \in Nat] ==
            IF nxt \notin DOMAIN map THEN [ends |-> TRUE, path |-> acc]
            ELSE IF map[nxt].step = None THEN [ends |-> TRUE, path |-> acc]
            ELSE IF fuel = 0 THEN [ends |-> FALSE, path |-> acc]
            ELSE loop[map[nxt].step[1][1],
                      Append(acc, map[nxt].step[1]),
                      fuel - 1]
    IN  loop[start, <<>>, fuel0]

Reverse(s) == [i \in 1..Len(s) |-> s[Len(s) + 1 - i]]

\* a variant of collect that builds the path front to back
collect_front(map, start) ==
    LET c == CollectFrom(map, start, Cardinality(DOMAIN map))
    IN  [ends |-> c.ends, path |-> Reverse(c.path)]

collect(map, start) == CollectFrom(map, start, Cardinality(DOMAIN map))

\* variant: an entry of equal depth is rewritten too
Relax_not_strict(map, to, nxt, frm, d) ==
    IF to \notin DOMAIN map \/ map[to].depth >= nxt
    THEN Insert(map, to, SolutionLink(nxt, Some(<<frm, d>>)))
    ELSE map

\* variant: every probed neighbour is rewritten
Relax_always(map, to, nxt, frm, d) ==
    Insert(map, to, SolutionLink(nxt, Some(<<frm, d>>)))

\* the visited table after probing neighbour `to` from `frm` by direction d
Relax(map, to, nxt, frm, d) ==
    IF to \notin DOMAIN map \/ map[to].depth > nxt
    THEN Insert(map, to, SolutionLink(nxt, Some(<<frm, d>>)))
    ELSE map

\* variant: the push is not limited to new states
PushIfNew_any(heap, isnew, solved, np) ==
    IF ~solved THEN Append(heap, np) ELSE heap

\* the frontier after probing neighbour np
PushIfNew(heap, isnew, solved, np) ==
    IF isnew /\ ~solved THEN Append(heap, np) ELSE heap

\* index of the greatest element under Ord: the one BinaryHeap::pop returns
HeapMaxIdx(s) ==
    LET greater[a \in 1..Len(s), b \in 1..Len(s)] ==
            IF cmp(s[b], s[a]) = "Greater" THEN b ELSE a
        best[lo \in 1..Len(s), hi \in 1..Len(s)] ==
            IF lo = hi THEN lo
            ELSE greater[best[lo, (lo + hi) \div 2],
                         best[(lo + hi) \div 2 + 1, hi]]
    IN  best[1, Len(s)]

RemoveAt(s, i) == SubSeq(s, 1, i - 1) \o SubSeq(s, i + 1, Len(s))

----------------------------------------------------------------------------
(* The lines solve writes *)

NodeLine(id, label, color) ==
    [kind |-> "node", id |-> id, label |-> label, color |-> color]
EdgeLine(a, b) == [kind |-> "edge", from |-> a, to |-> b]

\* a variant of SolutionLine with the two ends exchanged
SolutionLine_swapped(a, b, d) ==
    [kind |-> "solution", from |-> b, to |-> a, dir |-> d]

SolutionLine(a, b, d) == [kind |-> "solution", from |-> a, to |-> b, dir |-> d]

\* the loop over path: one green edge per step, prev trailing behind
RECURSIVE SolutionLines(_, _, _)
SolutionLines(steps, i, prev) ==
    IF i > Len(steps) THEN <<>>
    ELSE <<SolutionLine(steps[i][1], prev, steps[i][2])>>
         \o SolutionLines(steps, i + 1, steps[i][1])

----------------------------------------------------------------------------
(* solve *)

Init ==
    /\ pc = "start"
    /\ p1 = new
    /\ amount = 0
    /\ moves = 0
    /\ previous = None
    /\ visited = <<>>
    /\ states = <<>>
    /\ p = None
    /\ from = None
    /\ next = 0
    /\ di = 0
    /\ out = <<>>
    /\ result = None
    /\ path = <<>>
    /\ pops = 0
    /\ hist = <<>>
    /\ q = new
    /\ nops = 0

\* entry of solve with its scramble argument, up to the call of scramble
Start ==
    /\ pc = "start"
    /\ \E a \in 0..MaxScramble :
          /\ amount' = a
          /\ pc' = IF p1.cost = compute_cost(p1) THEN "scramble" ELSE "panic"
    /\ UNCHANGED <<p1, moves, previous>>
    /\ UNCHANGED searchVars
    /\ UNCHANGED harnessVars

\* one turn of the loop of scramble, d the direction the generator draws
ScrambleIter ==
    /\ pc = "scramble"
    /\ moves < amount
    /\ \E k \in 1..Len(ALL_DIRS) :
          LET d == ALL_DIRS[k]
              s == IF Some(d) # previous THEN slide(p1, d)
                   ELSE [ret |-> FALSE, self |-> p1]
          IN  /\ p1' = s.self
              /\ previous' = IF s.ret THEN Some(d) ELSE previous
              /\ moves' = IF s.ret THEN moves + 1 ELSE moves
    /\ UNCHANGED <<pc, amount>>
    /\ UNCHANGED searchVars
    /\ UNCHANGED harnessVars

\* scramble returns; the root is recorded, written and pushed
SolveBegin ==
    /\ pc = "scramble"
    /\ moves >= amount
    /\ visited' = Insert(<<>>, uniq(p1), SolutionLink(0, None))
    /\ out' = << [kind |-> "digraph"], [kind |-> "shape"],
                 NodeLine(uniq(p1), fmt(p1), "blue") >>
    /\ states' = <<p1>>
    /\ pc' = "loop"
    /\ amount' = 0
    /\ moves' = 0
    /\ previous' = None
    /\ UNCHANGED <<p1, p, from, next, di, result, path, pops>>
    /\ UNCHANGED harnessVars

\* the head of the while loop: pop and look up the depth, or leave with false
LoopHead ==
    /\ pc = "loop"
    /\ pops < MaxPops
    /\ IF Len(states) > 0
       THEN \E i \in {HeapMaxIdx(states)} : \E f \in {uniq(states[i])} :
                /\ p' = states[i]
                /\ states' = RemoveAt(states, i)
                /\ from' = f
                /\ pops' = pops + 1
                /\ IF f \in DOMAIN visited
                   THEN /\ next' = visited[f].depth + 1
                        /\ di' = 1
                        /\ pc' = "for"
                   ELSE /\ pc' = "panic"
                        /\ UNCHANGED <<next, di>>
                /\ UNCHANGED result
       ELSE /\ result' = Some(FALSE)
            /\ pc' = "done"
            /\ UNCHANGED <<p, states, from, pops, next, di>>
    /\ UNCHANGED <<p1, visited, out, path>>
    /\ UNCHANGED scrambleVars
    /\ UNCHANGED harnessVars

\* the body of the for loop for the direction ALL_DIRS[di]
Probe ==
    /\ pc = "for"
    /\ \E d \in {ALL_DIRS[di]} : \E s \in {slide(p, d)} :
       LET last == di = Len(ALL_DIRS)
       IN  IF ~s.ret
           THEN /\ p' = IF last THEN None ELSE s.self
                /\ from' = IF last THEN None ELSE from
                /\ next' = IF last THEN 0 ELSE next
                /\ di' = IF last THEN 0 ELSE di + 1
                /\ pc' = IF last THEN "loop" ELSE "for"
                /\ UNCHANGED <<visited, states, out, result, path>>
           ELSE \E to \in {uniq(s.self)} :
                LET isnew == to \notin DOMAIN visited
                    solved == is_solved(s.self)
                    color == IF solved THEN "red" ELSE "black"
                    out1 == Append(out, EdgeLine(from, to))
                    out2 == IF isnew
                            THEN Append(out1, NodeLine(to, fmt(s.self), color))
                            ELSE out1
                IN  /\ visited' = Relax(visited, to, next, from, d)
                    /\ states' = PushIfNew(states, isnew, solved, s.self)
                    /\ IF isnew /\ solved
                       THEN \E c \in {collect(visited', to)} :
                            /\ p' = s.self
                            /\ path' = c.path
                            /\ IF c.ends
                               THEN /\ out' = out2
                                              \o SolutionLines(c.path, 1, to)
                                              \o << [kind |-> "close"] >>
                                    /\ result' = Some(TRUE)
                                    /\ pc' = "done"
                               ELSE /\ out' = out2
                                    /\ result' = None
                                    /\ pc' = "hang"
                            /\ UNCHANGED <<from, next, di>>
                       ELSE \E u \in {slide(s.self, invert(d))} :
                            /\ out' = out2
                            /\ IF u.ret
                               THEN /\ p' = IF last THEN None ELSE u.self
                                    /\ from' = IF last THEN None ELSE from
                                    /\ next' = IF last THEN 0 ELSE next
                                    /\ di' = IF last THEN 0 ELSE di + 1
                                    /\ pc' = IF last THEN "loop" ELSE "for"
                               ELSE /\ p' = u.self
                                    /\ pc' = "panic"
                                    /\ UNCHANGED <<from, next, di>>
                            /\ UNCHANGED <<result, path>>
    /\ UNCHANGED <<p1, pops>>
    /\ UNCHANGED scrambleVars
    /\ UNCHANGED harnessVars

Next == Start \/ ScrambleIter \/ SolveBegin \/ LoopHead \/ Probe

Spec == Init /\ [][Next]_vars

\* solve is sequential code that never waits: a pop or a probe that can
\* be made is made
LiveSpec == Spec /\ WF_vars(LoopHead) /\ WF_vars(Probe)

----------------------------------------------------------------------------
(* Board harness: any sequence of slide and scramble calls on p1 *)

BoardInit ==
    /\ Init
    /\ pc = "start"

Last2(s) == IF Len(s) > 2 THEN SubSeq(s, Len(s) - 1, Len(s)) ELSE s

ApiNew ==
    /\ pc = "start"
    /\ pc' = "api"
    /\ p1' = new
    /\ UNCHANGED <<hist, q, nops>>
    /\ UNCHANGED scrambleVars
    /\ UNCHANGED searchVars

ApiSlide ==
    /\ pc = "api"
    /\ nops < MaxOps
    /\ \E d \in Direction :
          LET s == slide(p1, d)
          IN  /\ p1' = s.self
              /\ hist' = Last2(Append(hist,
                                      [d |-> d, ret |-> s.ret, before |-> p1]))
    /\ nops' = nops + 1
    /\ UNCHANGED <<pc, q>>
    /\ UNCHANGED scrambleVars
    /\ UNCHANGED searchVars

ApiScramble ==
    /\ pc = "api"
    /\ \E a \in 0..MaxScramble :
          /\ nops + a <= MaxOps
          /\ amount' = a
          /\ nops' = nops + a
    /\ moves' = 0
    /\ previous' = None
    /\ hist' = <<>>
    /\ pc' = "scramble"
    /\ UNCHANGED <<p1, q>>
    /\ UNCHANGED searchVars

ApiScrambleReturn ==
    /\ pc = "scramble"
    /\ moves >= amount
    /\ pc' = "api"
    /\ amount' = 0
    /\ moves' = 0
    /\ previous' = None
    /\ UNCHANGED <<p1, hist, q, nops>>
    /\ UNCHANGED searchVars

BoardNext == ApiNew \/ ApiSlide \/ ApiScramble \/ ScrambleIter \/ ApiScrambleReturn

BoardSpec == BoardInit /\ [][BoardNext]_vars

(* Pair harness: two Puzzles, each moved by legal or illegal slides *)

PairNew ==
    /\ pc = "start"
    /\ pc' = "pair"
    /\ p1' = new
    /\ q' = new
    /\ UNCHANGED <<hist, nops>>
    /\ UNCHANGED scrambleVars
    /\ UNCHANGED searchVars

PairSlideFirst ==
    /\ pc = "pair"
    /\ nops < MaxPairOps
    /\ \E d \in Direction : p1' = slide(p1, d).self
    /\ nops' = nops + 1
    /\ UNCHANGED <<pc, hist, q>>
    /\ UNCHANGED scrambleVars
    /\ UNCHANGED searchVars

PairSlideSecond ==
    /\ pc = "pair"
    /\ nops < MaxPairOps
    /\ \E d \in Direction : q' = slide(q, d).self
    /\ nops' = nops + 1
    /\ UNCHANGED <<pc, hist, p1>>
    /\ UNCHANGED scrambleVars
    /\ UNCHANGED searchVars

PairNext == PairNew \/ PairSlideFirst \/ PairSlideSecond

PairSpec == Init /\ [][PairNext]_vars

----------------------------------------------------------------------------
(* Helpers of the properties *)

RootUnsolved == p1.grid # new.grid

Succeeded == pc = "done" /\ result = Some(TRUE)

Searching == pc \in {"loop", "for", "done", "panic", "hang"}

EdgeLines == {i \in 1..Len(out) : out[i].kind = "edge"}

Dirs(steps) == [i \in 1..Len(steps) |-> steps[i][2]]

\* steps[i..] is a run of legal slides from b, each step carrying the
\* fingerprint of the Puzzle it is applied to, that ends on the solved grid
RECURSIVE ReplayOk(_, _, _)
ReplayOk(b, steps, i) ==
    IF i > Len(steps) THEN b.grid = new.grid
    ELSE /\ steps[i][1] = uniq(b)
         /\ slide(b, steps[i][2]).ret
         /\ ReplayOk(slide(b, steps[i][2]).self, steps, i + 1)

\* the step LoopHead takes when it pops
IsPop == pc = "loop" /\ pc' = "for"

\* the position of the Empty cell, read off the grid
BlankOf(grid) ==
    CHOOSE pt \in (0..LIMIT) \X (0..LIMIT) : grid[pt[1]][pt[2]] = Empty

Toward(pt, d) ==
    CASE d = "Up" -> <<pt[1] - 1, pt[2]>>
      [] d = "Down" -> <<pt[1] + 1, pt[2]>>
      [] d = "Left" -> <<pt[1], pt[2] - 1>>
      [] d = "Right" -> <<pt[1], pt[2] + 1>>

OnGrid(pt) == pt[1] \in 0..LIMIT /\ pt[2] \in 0..LIMIT

Exchanged(grid, a, b) ==
    [row \in 0..LIMIT |-> [col \in 0..LIMIT |->
        IF <<row, col>> = a THEN grid[b[1]][b[2]]
        ELSE IF <<row, col>> = b THEN grid[a[1]][a[2]]
        ELSE grid[row][col]]]

Cells == (0..LIMIT) \X (0..LIMIT)

\* the grids one legal slide away from a grid of gs, and gs itself
Around(gs) ==
    gs \cup {Exchanged(g, BlankOf(g), Toward(BlankOf(g), d)) :
               <<g, d>> \in {x \in gs \X Direction :
                               OnGrid(Toward(BlankOf(x[1]), x[2]))}}

RECURSIVE WithinUpTo(_)
WithinUpTo(k) ==
    IF k = 0 THEN <<{new.grid}>>
    ELSE LET prev == WithinUpTo(k - 1)
         IN  Append(prev, Around(prev[k]))

\* Within[k + 1] holds the grids within k legal slides of the solved one
Within == WithinUpTo(MaxOps)

\* the least number of legal slides between grid g and the solved grid
MinSlides(g) ==
    CHOOSE k \in 0..MaxOps :
        g \in Within[k + 1] /\ (k = 0 \/ g \notin Within[k])

\* the blank's own share of the Manhattan sum
BlankDistance(g) ==
    LET pt == BlankOf(g)
    IN  (LIMIT - pt[1]) + (LIMIT - pt[2])

\* the fingerprints met by following the predecessor links from k, k first
Chain(map, k) ==
    LET c == CollectFrom(map, k, Cardinality(DOMAIN map))
    IN  [ends |-> c.ends,
         keys |-> <<k>> \o [i \in 1..Len(c.path) |-> c.path[i][1]]]

\* the step Probe takes when it pushes
IsPush == pc = "for" /\ Len(states') > Len(states)

\* some entry is deeper than its predecessor's depth + 1: the predecessor's
\* depth was lowered after the entry was written
SomeRelaxed ==
    \E k \in DOMAIN visited :
        /\ visited[k].step # None
        /\ visited[visited[k].step[1][1]].depth + 1 < visited[k].depth

SolLines == SelectSeq(out, LAMBDA l : l.kind = "solution")

----------------------------------------------------------------------------
(* Properties *)

\* C1: from every root that is not the solved grid, the search loop ends and
\* solve returns true; it never returns false for such a root.
C1_UnsolvedRootSucceeds ==
    /\ (pc = "loop" /\ RootUnsolved) ~> Succeeded
    /\ [](Searching /\ RootUnsolved => result # Some(FALSE) /\ pc # "panic")

C1_Witness == Succeeded /\ RootUnsolved /\ pops >= 3

\* C2: when solve succeeds, the path of collect read in reverse starts with
\* the root's fingerprint and is a run of legal slides, each carrying the
\* fingerprint of the state it is applied to, that ends on the solved grid.
C2_ReversedPathSolves ==
    Succeeded =>
        /\ Len(path) > 0
        /\ Reverse(path)[1][1] = uniq(p1)
        /\ ReplayOk(p1, Reverse(path), 1)

C2_Witness == Succeeded /\ Len(path) >= 3 /\ ReplayOk(p1, Reverse(path), 1)

\* C3: with a solved root the search pops nothing and writes no edge, and it
\* ends with success and an empty path.
C3_SolvedRootDetected ==
    (Searching /\ ~RootUnsolved) =>
        /\ EdgeLines = {}
        /\ pops = 0
        /\ pc = "done" => (result = Some(TRUE) /\ path = <<>>)

\* C4: for a root one legal slide d1 away from the solved grid, or two legal
\* slides d1, d2 away with d2 not the opposite of d1, a finished search has
\* succeeded and its path from root to goal is the undoing directions in
\* reverse order.
C4_ShortScrambleUndone ==
    \A d1 \in Direction :
        LET a == slide(new, d1)
        IN  a.ret =>
              /\ (Searching /\ p1 = a.self) =>
                    /\ pc \notin {"panic", "hang"}
                    /\ pc = "done" =>
                          /\ result = Some(TRUE)
                          /\ Dirs(Reverse(path)) = <<invert(d1)>>
              /\ \A d2 \in Direction \ {invert(d1)} :
                    LET b == slide(a.self, d2)
                    IN  (b.ret /\ Searching /\ p1 = b.self) =>
                          /\ pc \notin {"panic", "hang"}
                          /\ pc = "done" =>
                                /\ result = Some(TRUE)
                                /\ Dirs(Reverse(path)) = <<invert(d2), invert(d1)>>

C4_Witness ==
    /\ pc = "done"
    /\ p1 = slide(slide(new, "Left").self, "Left").self
    /\ Dirs(Reverse(path)) = <<"Right", "Right">>

\* C5: every pop returns a Puzzle whose cost is the least of the costs in
\* the frontier at that moment.
C5_PopsLeastCost ==
    [][IsPop => \A i \in 1..Len(states) : p'.cost <= states[i].cost]_vars

C5_Witness ==
    /\ pc = "for"
    /\ di = 1
    /\ \E i \in 1..Len(states) : states[i].cost > p.cost
    /\ \E i \in 1..Len(states) : states[i].cost = p.cost

\* C6 as stated: among the Puzzles of least cost in the frontier, the pop
\* returns the one with the smallest fingerprint.
C6_PopsSmallestUniq ==
    [][IsPop => \A i \in 1..Len(states) :
                  states[i].cost = p'.cost =>
                      U64Cmp(uniq(p'), uniq(states[i])) # "Greater"]_vars

\* C6 amended: among the Puzzles of least cost in the frontier, the pop
\* returns the one with the largest fingerprint.
C6_PopsLargestUniq ==
    [][IsPop => \A i \in 1..Len(states) :
                  states[i].cost = p'.cost =>
                      U64Cmp(uniq(p'), uniq(states[i])) # "Less"]_vars

C6_Witness ==
    /\ pc = "for"
    /\ di = 1
    /\ \E i \in 1..Len(states) :
          /\ states[i].cost = p.cost
          /\ U64Cmp(uniq(p), uniq(states[i])) = "Greater"

\* C7: after new and after any slide calls and scramble, the cached cost of
\* the Puzzle is compute_cost of its grid.
C7_CostIsComputeCost == p1.cost = compute_cost(p1)

C7_Witness ==
    /\ pc = "api"
    /\ Len(hist) = 2
    /\ hist[1].ret
    /\ ~hist[2].ret
    /\ p1.cost = 6

\* C8: a slide that succeeds, followed by a slide in the opposite direction:
\* the second succeeds too and grid, empty position and cost are what they
\* were before the first.
C8_SlideThenOppositeRestores ==
    (Len(hist) = 2 /\ hist[1].ret /\ hist[2].d = invert(hist[1].d)) =>
        /\ hist[2].ret
        /\ p1.grid = hist[1].before.grid
        /\ p1.empty_pos = hist[1].before.empty_pos
        /\ p1.cost = hist[1].before.cost

C8_Witness ==
    /\ Len(hist) = 2
    /\ hist[1].ret
    /\ hist[1].d = "Up"
    /\ hist[2].d = "Down"
    /\ hist[1].before.cost = 4
    /\ p1 = hist[1].before

\* C9: slide returns false exactly when the cell next to the blank in that
\* direction is off the grid, and then the Puzzle is unchanged; otherwise it
\* returns true and the blank and that cell have changed places.
C9_SlideLegality ==
    Len(hist) >= 1 =>
        LET h == hist[Len(hist)]
            blank == BlankOf(h.before.grid)
            target == Toward(blank, h.d)
        IN  /\ h.ret = OnGrid(target)
            /\ ~h.ret => p1 = h.before
            /\ h.ret =>
                  /\ p1.grid = Exchanged(h.before.grid, blank, target)
                  /\ p1.grid[target[1]][target[2]] = Empty
                  /\ p1.empty_pos = target

C9_Witness ==
    /\ Len(hist) = 2
    /\ hist[1].ret
    /\ hist[1].d = "Up"
    /\ ~hist[2].ret
    /\ hist[2].d = "Right"
    /\ p1 = hist[2].before

\* C10: two Puzzles reached by slides from the solved one whose grids differ
\* have different fingerprints.
C10_UniqInjective == p1.grid # q.grid => uniq(p1) # uniq(q)

C10_Witness ==
    /\ pc = "pair"
    /\ p1.empty_pos # q.empty_pos
    /\ p1.grid[0] = q.grid[0]
    /\ p1.grid[1] = q.grid[1]
    /\ p1.grid # q.grid
    /\ uniq(p1) # uniq(q)

\* C11: the cost of a Puzzle reached from the solved one is at most the
\* least number of legal slides that solve it.
C11_CostAdmissible == p1.cost <= MinSlides(p1.grid)

\* C11 (amended): the cost less the blank's own distance is at most the
\* least number of legal slides that solve the Puzzle, and the cost itself
\* is at most twice that number.
C11_CostWithoutBlankAdmissible ==
    /\ p1.cost - BlankDistance(p1.grid) <= MinSlides(p1.grid)
    /\ p1.cost <= 2 * MinSlides(p1.grid)

C11_Witness ==
    /\ pc = "api"
    /\ MinSlides(p1.grid) = 3
    /\ p1.cost = 6
    /\ BlankDistance(p1.grid) = 3

\* C12: is_solved is true exactly on the solved grid; the cost is zero
\* there and positive on every other grid.
C12_SolvedIffSolvedGrid ==
    /\ is_solved(p1) <=> p1.grid = new.grid
    /\ p1.grid = new.grid => p1.cost = 0
    /\ p1.grid # new.grid => p1.cost > 0

C12_Witness ==
    /\ pc = "api"
    /\ Len(hist) = 2
    /\ hist[1].ret
    /\ hist[2].ret
    /\ ~is_solved(hist[2].before)
    /\ hist[2].before.grid # new.grid
    /\ p1.grid = new.grid
    /\ is_solved(p1)

\* C13: a legal slide changes the cost by at most 2, up or down.
C13_SlideChangesCostByAtMost2 ==
    (Len(hist) >= 1 /\ hist[Len(hist)].ret) =>
        LET before == hist[Len(hist)].before.cost
        IN  /\ p1.cost <= before + 2
            /\ before <= p1.cost + 2

C13_Witness ==
    /\ Len(hist) = 2
    /\ hist[1].ret
    /\ hist[2].ret
    /\ hist[1].before.cost = 4
    /\ hist[2].before.cost = 6
    /\ p1.cost = 4

\* C14: the grid holds Empty once and each of 1..SIZE*SIZE-1 once, and
\* empty_pos is the cell that holds Empty.
C14_GridIsPermutation ==
    /\ Cardinality({pt \in Cells : p1.grid[pt[1]][pt[2]] = Empty}) = 1
    /\ \A n \in 1..(SIZE * SIZE - 1) :
          Cardinality({pt \in Cells : p1.grid[pt[1]][pt[2]] = Number(n)}) = 1
    /\ p1.empty_pos \in Cells
    /\ p1.grid[p1.empty_pos[1]][p1.empty_pos[2]] = Empty

C14_Witness ==
    /\ pc = "scramble"
    /\ moves >= 4
    /\ p1.empty_pos = <<0, 0>>
    /\ p1.grid[LIMIT][LIMIT] # Empty

\* C15: a visited entry is never removed and its depth never grows; an
\* entry is written only for an unseen fingerprint or one whose depth is
\* greater than the popped state's depth + 1, and it then holds that depth
\* and the predecessor (popped fingerprint, direction).
C15_VisitedMonotone ==
    [][ /\ \A k \in DOMAIN visited :
              /\ k \in DOMAIN visited'
              /\ visited'[k].depth <= visited[k].depth
        /\ pc # "scramble" =>
              \A k \in DOMAIN visited' :
                 (k \notin DOMAIN visited \/ visited'[k] # visited[k]) =>
                    /\ pc = "for"
                    /\ k \notin DOMAIN visited \/ visited[k].depth > next
                    /\ next = visited[from].depth + 1
                    /\ visited'[k] =
                          SolutionLink(next, Some(<<from, ALL_DIRS[di]>>))
      ]_vars

C15_Witness ==
    /\ pc = "for"
    /\ SomeRelaxed
    /\ Cardinality(DOMAIN visited) >= 50

\* C16: the depth of every visited entry is the number of predecessor
\* links between it and the root entry.
C16_DepthIsChainLength ==
    \A k \in DOMAIN visited :
        visited[k].depth = Len(Chain(visited, k).keys) - 1

\* C17: the predecessor links from any visited fingerprint stay inside the
\* table, meet no fingerprint twice and end at the root, whose entry keeps
\* depth 0 and no predecessor.
C17_ChainsEndAtRoot ==
    Searching =>
        /\ uniq(p1) \in DOMAIN visited
        /\ visited[uniq(p1)] = SolutionLink(0, None)
        /\ \A k \in DOMAIN visited :
              LET c == Chain(visited, k)
                  n == Len(c.keys)
              IN  /\ c.ends
                  /\ \A i \in 1..n : c.keys[i] \in DOMAIN visited
                  /\ \A i, j \in 1..n : c.keys[i] = c.keys[j] => i = j
                  /\ c.keys[n] = uniq(p1)

C17_Witness ==
    /\ pc = "for"
    /\ SomeRelaxed
    /\ \E k \in DOMAIN visited :
          /\ Len(Chain(visited, k).keys) >= 20
          /\ Chain(visited, k).keys[Len(Chain(visited, k).keys)] = uniq(p1)

\* C18: a push adds one Puzzle: the root at the start, afterwards only a
\* neighbour that is unseen and unsolved; a step that rewrites an existing
\* entry pushes nothing; a popped fingerprint has not been expanded before.
C18_PushedOnce ==
    [][ /\ Len(states') > Len(states) =>
              LET b == states'[Len(states')]
              IN  /\ states' = Append(states, b)
                  /\ IF pc = "scramble"
                     THEN b = p1 /\ states = <<>> /\ visited = <<>>
                     ELSE /\ pc = "for"
                          /\ uniq(b) \notin DOMAIN visited
                          /\ uniq(b) \in DOMAIN visited'
                          /\ ~is_solved(b)
                          /\ \A i \in 1..Len(out) :
                                out[i].kind = "node" => out[i].id # uniq(b)
        /\ (\E k \in DOMAIN visited : visited'[k] # visited[k]) =>
              states' = states
        /\ IsPop =>
              /\ \A i \in 1..Len(states') : uniq(states'[i]) # from'
              /\ \A i \in EdgeLines : out[i].from # from'
      ]_vars

C18_Witness ==
    /\ pc = "loop"
    /\ SomeRelaxed
    /\ pops >= 60
    /\ Len(states) >= 30

\* C19: no assertion fails; while a popped Puzzle is expanded every probe
\* starts from the popped state, whose fingerprint is `from`; a pushed
\* Puzzle is the neighbour after the slide, not the popped state.
C19_UndoRestores ==
    /\ [](pc # "panic")
    /\ [](pc = "for" => uniq(p) = from)
    /\ [][(pc = "for" /\ pc' = "for") => p' = p]_vars
    /\ [][IsPush =>
            LET s == slide(p, ALL_DIRS[di])
            IN  /\ s.ret
                /\ states'[Len(states')] = s.self
                /\ s.self.grid # p.grid
                /\ uniq(s.self) # from]_vars

C19_Witness ==
    /\ pc = "for"
    /\ di = Len(ALL_DIRS)
    /\ pops >= 2
    /\ uniq(p) = from
    /\ Cardinality({i \in EdgeLines : out[i].from = from}) >= 2
    /\ Len(states) >= 2
    /\ out[Len(out)].kind = "node"
    /\ uniq(states[Len(states)]) = out[Len(out)].id

\* C20: on success the solution lines run from the root to the goal: the
\* first starts at the root's fingerprint, each next one starts where the
\* one before ended, and the last ends at the solved fingerprint.
C20_GreenRootToGoal ==
    Succeeded =>
        LET sol == SolLines
            n == Len(sol)
        IN  /\ n >= 1
            /\ sol[1].from = uniq(p1)
            /\ sol[n].to = uniq(new)
            /\ \A i \in 1..(n - 1) : sol[i].to = sol[i + 1].from

\* C20 (amended): on success the solution lines run from the goal back to
\* the root: the first ends at the solved fingerprint, each next one ends
\* where the one before started, the last starts at the root's fingerprint,
\* and each line carries the direction that leads from its start to its end.
C20_GreenGoalToRoot ==
    Succeeded =>
        LET sol == SolLines
            n == Len(sol)
        IN  /\ n >= 1
            /\ sol[1].to = uniq(new)
            /\ sol[n].from = uniq(p1)
            /\ \A i \in 1..(n - 1) : sol[i].from = sol[i + 1].to
            /\ ReplayOk(p1, [i \in 1..n |-> <<sol[n + 1 - i].from,
                                             sol[n + 1 - i].dir>>], 1)

C20_Witness ==
    /\ Succeeded
    /\ Len(SolLines) >= 4
    /\ SolLines[1].to = uniq(new)
    /\ SolLines[1].from # uniq(p1)

====
